---- MODULE Spec2Model ----
(***************************************************************************)
(* Model of the shader preamble synthesizer and compile front-end          *)
(* (package graphics: shaderSuffix, CompileShader) and of the isometric    *)
(* example's Game.Update.                                                  *)
(*                                                                         *)
(* Text is modelled as a sequence of top-level declarations; a declaration *)
(* is a sequence of tokens (strings).  Comments and blanks of the          *)
(* templates are not tokens.  Every place where fmt.Sprintf substitutes a  *)
(* verb is a token boundary, so "imageSrc%[1]dAt" is the three tokens      *)
(* "imageSrc", Itoa(i), "At".                                              *)
(***************************************************************************)
EXTENDS Integers, Sequences, FiniteSets, TLC

VARIABLES
    ShaderImageCount,   \* the package constant ShaderImageCount (set once)
    frames,             \* activation records of the calls of shaderSuffix
    cs,                 \* activation record of CompileShader
    gpu,                \* one evaluation of the emitted fetch functions
    game                \* the isometric example's Game and its last input

vars == <<ShaderImageCount, frames, cs, gpu, game>>

-----------------------------------------------------------------------------
(* Bounds of the model *)

MaxTicks == 2

WheelUpTicks == 29

WheelDownTicks == 34

MaxCoord == 1

MaxImageCount == 4

Calls == {1, 2}

-----------------------------------------------------------------------------
(* shaderir.Unit *)

Pixels == "Pixels"
Texels == "Texels"
OtherUnit == "Unit(2)"
Units == {Pixels, Texels, OtherUnit}

-----------------------------------------------------------------------------
(* fmt.Sprintf("%d", i) for the small non-negative i the model uses *)

Digits == <<"0", "1", "2", "3", "4", "5", "6", "7", "8", "9">>

Itoa(i) == Digits[i + 1]

IsDigit(tok) == \E k \in 1..Len(Digits) : Digits[k] = tok

Atoi(tok) == (CHOOSE k \in 1..Len(Digits) : Digits[k] = tok) - 1

NL == "\n"
ORG == "__imageSrcRegionOrigins"
SIZ == "__imageSrcRegionSizes"
TSZ == "__imageSrcTextureSizes"

NoText == << >>
NoErr == << >>

-----------------------------------------------------------------------------
(* The templates of shaderSuffix *)

\* lines 26-88: the declarations that do not depend on the slot
HeaderText(n) ==
    << <<"var", "__imageDstTextureSize", "vec2">>,
       <<"func", "imageDstTextureSize", "(", ")", "vec2", "{", NL,
         "return", "__imageDstTextureSize", NL, "}">>,
       <<"var", TSZ, "[", Itoa(n), "]", "vec2">>,
       <<"func", "imageSrcTextureSize", "(", ")", "vec2", "{", NL,
         "return", TSZ, "[", "0", "]", NL, "}">>,
       <<"var", "__imageDstRegionOrigin", "vec2">>,
       <<"var", "__imageDstRegionSize", "vec2">>,
       <<"func", "imageDstRegionOnTexture", "(", ")", "(", "vec2", ",", "vec2", ")", "{", NL,
         "return", "__imageDstRegionOrigin", ",", "__imageDstRegionSize", NL, "}">>,
       <<"func", "imageDstOrigin", "(", ")", "vec2", "{", NL,
         "return", "__imageDstRegionOrigin", NL, "}">>,
       <<"func", "imageDstSize", "(", ")", "vec2", "{", NL,
         "return", "__imageDstRegionSize", NL, "}">>,
       <<"var", ORG, "[", Itoa(n), "]", "vec2">>,
       <<"var", SIZ, "[", Itoa(n), "]", "vec2">>,
       <<"func", "imageSrcRegionOnTexture", "(", ")", "(", "vec2", ",", "vec2", ")", "{", NL,
         "return", ORG, "[", "0", "]", ",", SIZ, "[", "0", "]", NL, "}">> >>

\* lines 91-105 with both accessors reading element 0
AccessorTextZero(i) ==
    << <<"func", "imageSrc", Itoa(i), "Origin", "(", ")", "vec2", "{", NL,
         "return", ORG, "[", "0", "]", NL, "}">>,
       <<"func", "imageSrc", Itoa(i), "Size", "(", ")", "vec2", "{", NL,
         "return", SIZ, "[", "0", "]", NL, "}">> >>

\* lines 91-105: the origin and size accessors of slot i
AccessorText(i) ==
    << <<"func", "imageSrc", Itoa(i), "Origin", "(", ")", "vec2", "{", NL,
         "return", ORG, "[", Itoa(i), "]", NL, "}">>,
       <<"func", "imageSrc", Itoa(i), "Size", "(", ")", "vec2", "{", NL,
         "return", SIZ, "[", Itoa(i), "]", NL, "}">> >>

\* line 112
PixelsPos(i) ==
    <<"pos", "-", ORG, "[", "0", "]", "+", ORG, "[", Itoa(i), "]">>

\* line 114 with the ratio of the texture sizes inverted
TexelsPosInverted(i) ==
    <<"(", "(", "pos", "-", ORG, "[", "0", "]", ")", "*", TSZ, "[", Itoa(i), "]", ")",
      "/", TSZ, "[", "0", "]", "+", ORG, "[", Itoa(i), "]">>

\* line 114
TexelsPos(i) ==
    <<"(", "(", "pos", "-", ORG, "[", "0", "]", ")", "*", TSZ, "[", "0", "]", ")",
      "/", TSZ, "[", Itoa(i), "]", "+", ORG, "[", Itoa(i), "]">>

\* lines 107-118: the position expression of slot i, or the error of the
\* default branch.  The switch is only entered for i >= 1.
PosFor(i, unit) ==
    IF i >= 1
    THEN CASE unit = Pixels -> [pos |-> PixelsPos(i), err |-> NoErr]
           [] unit = Texels -> [pos |-> TexelsPos(i), err |-> NoErr]
           [] OTHER -> [pos |-> <<"pos">>,
                        err |-> <<"graphics: unexpected unit: %d", unit>>]
    ELSE [pos |-> <<"pos">>, err |-> NoErr]

\* lines 120-125
UnsafeAtText(i, pos) ==
    << <<"func", "imageSrc", Itoa(i), "UnsafeAt", "(", "pos", "vec2", ")", "vec4", "{", NL,
         "return", "__texelAt", "(", "__t", Itoa(i), ",">> \o pos \o <<")", NL, "}">> >>

\* lines 128-135 with the lower bound taken from the slot's own origin
PixelsAtOwnOrigin(i, pos) ==
    << <<"func", "imageSrc", Itoa(i), "At", "(", "pos", "vec2", ")", "vec4", "{", NL,
         "in", ":=", "step", "(", ORG, "[", Itoa(i), "]", ",", "pos", ")", "-",
         "step", "(", ORG, "[", "0", "]", "+", SIZ, "[", Itoa(i), "]", ",", "pos", ")", NL,
         "return", "__texelAt", "(", "__t", Itoa(i), ",">> \o pos \o
       <<")", "*", "in", ".", "x", "*", "in", ".", "y", NL, "}">> >>

\* lines 128-135
PixelsAtText(i, pos) ==
    << <<"func", "imageSrc", Itoa(i), "At", "(", "pos", "vec2", ")", "vec4", "{", NL,
         "in", ":=", "step", "(", ORG, "[", "0", "]", ",", "pos", ")", "-",
         "step", "(", ORG, "[", "0", "]", "+", SIZ, "[", Itoa(i), "]", ",", "pos", ")", NL,
         "return", "__texelAt", "(", "__t", Itoa(i), ",">> \o pos \o
       <<")", "*", "in", ".", "x", "*", "in", ".", "y", NL, "}">> >>

\* lines 137-146 with the slot's own region size, as in the pixel mode
TexelsAtOwnSize(i, pos) == PixelsAtText(i, pos)

\* lines 137-146
TexelsAtText(i, pos) ==
    << <<"func", "imageSrc", Itoa(i), "At", "(", "pos", "vec2", ")", "vec4", "{", NL,
         "in", ":=", "step", "(", ORG, "[", "0", "]", ",", "pos", ")", "-",
         "step", "(", ORG, "[", "0", "]", "+", SIZ, "[", "0", "]", ",", "pos", ")", NL,
         "return", "__texelAt", "(", "__t", Itoa(i), ",">> \o pos \o
       <<")", "*", "in", ".", "x", "*", "in", ".", "y", NL, "}">> >>

\* lines 126-147: the switch has no default branch
AtText(i, unit, pos) ==
    CASE unit = Pixels -> PixelsAtText(i, pos)
      [] unit = Texels -> TexelsAtText(i, pos)
      [] OTHER -> << >>

\* lines 150-156
VertexText ==
    << <<"var", "__projectionMatrix", "mat4">>,
       <<"func", "__vertex", "(", "position", "vec2", ",", "texCoord", "vec2", ",",
         "color", "vec4", ")", "(", "vec4", ",", "vec2", ",", "vec4", ")", "{", NL,
         "return", "__projectionMatrix", "*", "vec4", "(", "position", ",", "0", ",", "1", ")",
         ",", "texCoord", ",", "color", NL, "}">> >>

-----------------------------------------------------------------------------
(* Reading the emitted text back: the declarations of a text, the          *)
(* statements of a function body, and the expression grammar of the        *)
(* shading language as far as the templates use it                         *)
(*   expr   ::= term  { ("+" | "-") term }                                 *)
(*   term   ::= factor { ("*" | "/") factor }                              *)
(*   factor ::= "(" expr ")" | step "(" expr "," expr ")"                  *)
(*            | __texelAt "(" __t digit "," expr ")"                       *)
(*            | digit | ident "[" digit "]" | ident "." field | ident      *)

IndexOf(toks, tok) == CHOOSE k \in 1..Len(toks) : toks[k] = tok /\ \A j \in 1..(k - 1) : toks[j] # tok

IsFunc(decl) == decl[1] = "func"

IsVar(decl) == decl[1] = "var"

\* the pieces of the name of a function declaration
FuncName(decl) == SubSeq(decl, 2, IndexOf(decl, "(") - 1)

\* the tokens between the braces of a function declaration
FuncBody(decl) == SubSeq(decl, IndexOf(decl, "{") + 1, Len(decl) - 1)

\* the declarations of text that declare the function called name
FuncsNamed(text, name) ==
    {k \in 1..Len(text) : IsFunc(text[k]) /\ FuncName(text[k]) = name}

TheFunc(text, name) == text[CHOOSE k \in FuncsNamed(text, name) : TRUE]

\* the statements of a body: the non-empty runs of tokens between newlines
RECURSIVE StmtsFrom(_, _, _)
StmtsFrom(toks, p, cur) ==
    IF p > Len(toks)
    THEN IF cur = << >> THEN << >> ELSE <<cur>>
    ELSE IF toks[p] = NL
         THEN (IF cur = << >> THEN << >> ELSE <<cur>>) \o StmtsFrom(toks, p + 1, << >>)
         ELSE StmtsFrom(toks, p + 1, Append(cur, toks[p]))

Stmts(body) == StmtsFrom(body, 1, << >>)

Node(tag, name, l, r) == <<tag, name, l, r>>
Leaf(tag, name) == <<tag, name, << >>, << >> >>
Tag(n) == n[1]
Name(n) == n[2]
Left(n) == n[3]
Right(n) == n[4]

Tok(t, p) == IF p <= Len(t) THEN t[p] ELSE "<eof>"

RECURSIVE ParseExpr(_, _), ParseTerm(_, _), ParseFactor(_, _), ExprRest(_, _, _), TermRest(_, _, _)

ParseFactor(t, p) ==
    CASE Tok(t, p) = "(" ->
            LET e == ParseExpr(t, p + 1)
            IN  [n |-> e.n, p |-> e.p + 1]
      [] Tok(t, p) = "step" ->
            LET a == ParseExpr(t, p + 2)
                b == ParseExpr(t, a.p + 1)
            IN  [n |-> Node("call", "step", a.n, b.n), p |-> b.p + 1]
      [] Tok(t, p) = "__texelAt" ->
            LET e == ParseExpr(t, p + 5)
            IN  [n |-> Node("texel", Tok(t, p + 3), e.n, << >>), p |-> e.p + 1]
      [] IsDigit(Tok(t, p)) ->
            [n |-> Leaf("num", Tok(t, p)), p |-> p + 1]
      [] Tok(t, p + 1) = "[" ->
            [n |-> Node("idx", Tok(t, p), Leaf("num", Tok(t, p + 2)), << >>), p |-> p + 4]
      [] Tok(t, p + 1) = "." ->
            [n |-> Node("sel", Tok(t, p + 2), Leaf("var", Tok(t, p)), << >>), p |-> p + 3]
      [] OTHER ->
            [n |-> Leaf("var", Tok(t, p)), p |-> p + 1]

TermRest(t, p, acc) ==
    IF Tok(t, p) \in {"*", "/"}
    THEN LET f == ParseFactor(t, p + 1)
         IN  TermRest(t, f.p, Node("bin", Tok(t, p), acc, f.n))
    ELSE [n |-> acc, p |-> p]

ParseTerm(t, p) ==
    LET f == ParseFactor(t, p)
    IN  TermRest(t, f.p, f.n)

ExprRest(t, p, acc) ==
    IF Tok(t, p) \in {"+", "-"}
    THEN LET f == ParseTerm(t, p + 1)
         IN  ExprRest(t, f.p, Node("bin", Tok(t, p), acc, f.n))
    ELSE [n |-> acc, p |-> p]

ParseExpr(t, p) ==
    LET f == ParseTerm(t, p)
    IN  ExprRest(t, f.p, f.n)

\* a whole token run as one expression
Parse(t) == ParseExpr(t, 1).n

\* a statement: "return e" or "x := e"
IsReturn(st) == st[1] = "return"

IsDefine(st) == Len(st) >= 2 /\ st[2] = ":="

StmtExpr(st) == IF IsReturn(st) THEN Parse(SubSeq(st, 2, Len(st))) ELSE Parse(SubSeq(st, 3, Len(st)))

\* the expression a function returns, the expression it binds to x
ReturnExpr(decl) ==
    LET ss == Stmts(FuncBody(decl))
    IN  StmtExpr(ss[CHOOSE k \in 1..Len(ss) : IsReturn(ss[k])])

HasDefine(decl, x) ==
    LET ss == Stmts(FuncBody(decl))
    IN  \E k \in 1..Len(ss) : IsDefine(ss[k]) /\ ss[k][1] = x

DefineExpr(decl, x) ==
    LET ss == Stmts(FuncBody(decl))
    IN  StmtExpr(ss[CHOOSE k \in 1..Len(ss) : IsDefine(ss[k]) /\ ss[k][1] = x])

\* the texture fetch inside an expression: the expression itself or the
\* leftmost operand of a product
RECURSIVE FetchOf(_)
FetchOf(n) == IF Tag(n) = "texel" THEN n ELSE FetchOf(Left(n))

-----------------------------------------------------------------------------
(* shaderSuffix, step by step.  A frame holds the locals of one call:      *)
(* unit (the parameter), buf (the local shaderSuffix), i (the loop index)  *)
(* and, once the call returned, ret = (text, err).                         *)

IdleFrame ==
    [pc |-> "idle", unit |-> Pixels, i |-> 0, buf |-> NoText,
     ret |-> [text |-> NoText, err |-> NoErr]]

\* the buffer as one package-level variable that every call appends to
SharedBuf(fr, c) == fr[1].buf

\* the local variable shaderSuffix of call c (line 26: declared with :=)
LocalBuf(fr, c) == fr[c].buf

\* line 25: the call, its parameter bound
SuffixEnter(f, unit) == [IdleFrame EXCEPT !.pc = "begin", !.unit = unit]

\* lines 26-88
SuffixHeader(f, buf, n) == [f EXCEPT !.pc = "loop", !.buf = HeaderText(n), !.i = 0]

\* lines 90-148: one iteration of the loop
SuffixBody(f, buf) ==
    LET p == PosFor(f.i, f.unit)
    IN  IF p.err # NoErr
        THEN [f EXCEPT !.pc = "done", !.ret = [text |-> NoText, err |-> p.err]]
        ELSE [f EXCEPT !.buf = buf \o AccessorText(f.i) \o UnsafeAtText(f.i, p.pos)
                                   \o AtText(f.i, f.unit, p.pos),
                       !.i = f.i + 1]

\* lines 150-157
SuffixFinish(f, buf) ==
    [f EXCEPT !.pc = "done", !.ret = [text |-> buf \o VertexText, err |-> NoErr]]

\* the whole call, as CompileShader makes it (line 165)
RECURSIVE SuffixRun(_, _)
SuffixRun(f, n) ==
    CASE f.pc = "begin" -> SuffixRun(SuffixHeader(f, f.buf, n), n)
      [] f.pc = "loop" /\ f.i < n -> SuffixRun(SuffixBody(f, f.buf), n)
      [] f.pc = "loop" /\ f.i >= n -> SuffixRun(SuffixFinish(f, f.buf), n)
      [] OTHER -> f.ret

shaderSuffix(unit, n) == SuffixRun(SuffixEnter(IdleFrame, unit), n)

-----------------------------------------------------------------------------
(* Actions of the calls of shaderSuffix *)

Call(c) ==
    /\ frames[c].pc \in {"idle", "done"}
    /\ \E unit \in Units : frames' = [frames EXCEPT ![c] = SuffixEnter(frames[c], unit)]
    /\ UNCHANGED <<ShaderImageCount, cs, gpu, game>>

Header(c) ==
    /\ frames[c].pc = "begin"
    /\ frames' = [frames EXCEPT ![c] = SuffixHeader(frames[c], LocalBuf(frames, c), ShaderImageCount)]
    /\ UNCHANGED <<ShaderImageCount, cs, gpu, game>>

LoopBody(c) ==
    /\ frames[c].pc = "loop"
    /\ frames[c].i < ShaderImageCount
    /\ frames' = [frames EXCEPT ![c] = SuffixBody(frames[c], LocalBuf(frames, c))]
    /\ UNCHANGED <<ShaderImageCount, cs, gpu, game>>

Finish(c) ==
    /\ frames[c].pc = "loop"
    /\ frames[c].i >= ShaderImageCount
    /\ frames' = [frames EXCEPT ![c] = SuffixFinish(frames[c], LocalBuf(frames, c))]
    /\ UNCHANGED <<ShaderImageCount, cs, gpu, game>>

-----------------------------------------------------------------------------
(* CompileShader.  ParseCompilerDirectives and shader.Compile are calls    *)
(* into package shader; the model draws their results.                     *)

NilBlock == "nil"
SomeBlock == "block"

NilProgram == [isNil |-> TRUE, VertexBlock |-> NilBlock, FragmentBlock |-> NilBlock]

Program(v, f) == [isNil |-> FALSE, VertexBlock |-> v, FragmentBlock |-> f]

\* line 175, line 176
vert == "__vertex"
frag == "Fragment"

\* what shader.ParseCompilerDirectives may return (line 161)
ParseErrors == {<<"shader: invalid directive">>, <<"shader: directive given twice">>}

ParseOutcomes ==
    {[unit |-> u, err |-> NoErr] : u \in Units}
        \cup {[unit |-> Texels, err |-> e] : e \in ParseErrors}

\* what shader.Compile may return (line 178)
CompileErrors == {<<"shader: syntax error">>, <<"shader: type error">>}

CompileOutcomes ==
    {[ir |-> Program(v, f), err |-> NoErr] : v \in {NilBlock, SomeBlock}, f \in {NilBlock, SomeBlock}}
        \cup {[ir |-> NilProgram, err |-> e] : e \in CompileErrors}

\* the user sources the model compiles: with and without a Fragment function
Sources ==
    { << <<"func", frag, "(", "position", "vec4", ",", "texCoord", "vec2", ",", "color", "vec4", ")",
           "vec4", "{", NL, "return", "imageSrc", "0", "UnsafeAt", "(", "texCoord", ")", NL, "}">> >>,
      << <<"var", "Time", "float">> >> }

CallParse == "shader.ParseCompilerDirectives"
CallSuffix == "shaderSuffix"
CallCompile == "shader.Compile"
CheckEntries == "entry points"

IdleCS ==
    [pc |-> "idle", src |-> NoText, log |-> << >>,
     parse |-> [unit |-> Texels, err |-> NoErr],
     suffix |-> [text |-> NoText, err |-> NoErr],
     buf |-> NoText,
     comp |-> [ir |-> NilProgram, err |-> NoErr],
     ret |-> [prog |-> NilProgram, err |-> NoErr]]

\* the return statements of CompileShader
Return(c, prog, err) == [c EXCEPT !.pc = "done", !.ret = [prog |-> prog, err |-> err]]

\* lines 161-164 with the error of the parser dropped
AfterParseIgnoringErr(c, o) ==
    [c EXCEPT !.log = Append(c.log, CallParse), !.parse = o, !.pc = "parsed"]

\* lines 161-164
AfterParse(c, o) ==
    LET d == [c EXCEPT !.log = Append(c.log, CallParse), !.parse = o]
    IN  IF o.err # NoErr THEN Return(d, NilProgram, o.err) ELSE [d EXCEPT !.pc = "parsed"]

\* lines 165-172
AfterSuffix(c, r) ==
    LET d == [c EXCEPT !.log = Append(c.log, CallSuffix), !.suffix = r]
    IN  IF r.err # NoErr
        THEN Return(d, NilProgram, r.err)
        ELSE [d EXCEPT !.pc = "buffered", !.buf = c.src \o r.text]

\* lines 178-181
AfterCompile(c, o) ==
    LET d == [c EXCEPT !.log = Append(c.log, CallCompile), !.comp = o]
    IN  IF o.err # NoErr THEN Return(d, NilProgram, o.err) ELSE [d EXCEPT !.pc = "compiled"]

MissingVertex == <<"graphics: vertex shader entry point '%s' is missing", vert>>
MissingFragment == <<"graphics: fragment shader entry point '%s' is missing", frag>>

\* lines 183-190 without the check of the fragment block
EntryPointsVertexOnly(c) ==
    LET d == [c EXCEPT !.log = Append(c.log, CheckEntries)]
    IN  IF c.comp.ir.VertexBlock = NilBlock
        THEN Return(d, NilProgram, MissingVertex)
        ELSE Return(d, c.comp.ir, NoErr)

\* lines 183-190 returning the program together with the error
EntryPointsKeepingIr(c) ==
    LET d == [c EXCEPT !.log = Append(c.log, CheckEntries)]
    IN  IF c.comp.ir.VertexBlock = NilBlock
        THEN Return(d, c.comp.ir, MissingVertex)
        ELSE IF c.comp.ir.FragmentBlock = NilBlock
             THEN Return(d, c.comp.ir, MissingFragment)
             ELSE Return(d, c.comp.ir, NoErr)

\* lines 183-190
EntryPoints(c) ==
    LET d == [c EXCEPT !.log = Append(c.log, CheckEntries)]
    IN  IF c.comp.ir.VertexBlock = NilBlock
        THEN Return(d, NilProgram, MissingVertex)
        ELSE IF c.comp.ir.FragmentBlock = NilBlock
             THEN Return(d, NilProgram, MissingFragment)
             ELSE Return(d, c.comp.ir, NoErr)

\* line 160
CS_Call ==
    /\ cs.pc \in {"idle", "done"}
    /\ \E src \in Sources : cs' = [IdleCS EXCEPT !.pc = "start", !.src = src]
    /\ UNCHANGED <<ShaderImageCount, frames, gpu, game>>

CS_Parse ==
    /\ cs.pc = "start"
    /\ \E o \in ParseOutcomes : cs' = AfterParse(cs, o)
    /\ UNCHANGED <<ShaderImageCount, frames, gpu, game>>

CS_Suffix ==
    /\ cs.pc = "parsed"
    /\ cs' = AfterSuffix(cs, shaderSuffix(cs.parse.unit, ShaderImageCount))
    /\ UNCHANGED <<ShaderImageCount, frames, gpu, game>>

CS_Compile ==
    /\ cs.pc = "buffered"
    /\ \E o \in CompileOutcomes : cs' = AfterCompile(cs, o)
    /\ UNCHANGED <<ShaderImageCount, frames, gpu, game>>

CS_Check ==
    /\ cs.pc = "compiled"
    /\ cs' = EntryPoints(cs)
    /\ UNCHANGED <<ShaderImageCount, frames, gpu, game>>

-----------------------------------------------------------------------------
(* Running the emitted functions.  Every value is a pair (x, y); a scalar  *)
(* is the pair of two equal components and a sample is a scalar, so that   *)
(* the operators of the language act component by component.  The texts    *)
(* of the pixel mode use no division.                                      *)

Vec(x, y) == <<x, y>>

Scalar(x) == <<x, x>>

\* the built-in step: 1 where x >= edge, 0 elsewhere
StepFn(edge, x) ==
    Vec(IF x[1] >= edge[1] THEN 1 ELSE 0, IF x[2] >= edge[2] THEN 1 ELSE 0)

\* the texel of texture t at p: 0 everywhere on a blank texture, else a
\* positive value that tells textures and positions apart
TexelAt(env, t, p) ==
    IF env.blank THEN Scalar(0) ELSE Scalar(1000 + 100 * t + 10 * p[1] + p[2])

Arith(op, a, b) ==
    CASE op = "+" -> Vec(a[1] + b[1], a[2] + b[2])
      [] op = "-" -> Vec(a[1] - b[1], a[2] - b[2])
      [] op = "*" -> Vec(a[1] * b[1], a[2] * b[2])

RECURSIVE Eval(_, _)
Eval(n, env) ==
    CASE Tag(n) = "num" -> Scalar(Atoi(Name(n)))
      [] Tag(n) = "var" -> env.vars[Name(n)]
      [] Tag(n) = "idx" -> env.uniforms[Name(n)][Atoi(Name(Left(n))) + 1]
      [] Tag(n) = "sel" -> LET v == Eval(Left(n), env)
                           IN  IF Name(n) = "x" THEN Scalar(v[1]) ELSE Scalar(v[2])
      [] Tag(n) = "bin" -> Arith(Name(n), Eval(Left(n), env), Eval(Right(n), env))
      [] Tag(n) = "call" -> StepFn(Eval(Left(n), env), Eval(Right(n), env))
      [] Tag(n) = "texel" -> TexelAt(env, Atoi(Name(n)), Eval(Left(n), env))

\* the statements of a body in order: a definition binds a local, the
\* return statement gives the result
RECURSIVE Exec(_, _, _)
Exec(ss, k, env) ==
    IF IsReturn(ss[k])
    THEN Eval(StmtExpr(ss[k]), env)
    ELSE Exec(ss, k + 1, [env EXCEPT !.vars = (ss[k][1] :> Eval(StmtExpr(ss[k]), env)) @@ env.vars])

\* a call of the one-parameter function decl with argument pos
CallFunc(decl, pos, uniforms, blank) ==
    Exec(Stmts(FuncBody(decl)), 1,
         [vars |-> [pos |-> pos], uniforms |-> uniforms, blank |-> blank])

\* the value the function binds to its local x
LocalOf(decl, x, pos, uniforms, blank) ==
    Eval(DefineExpr(decl, x), [vars |-> [pos |-> pos], uniforms |-> uniforms, blank |-> blank])

IdleGpu ==
    [pc |-> "idle", uniforms |-> << >>, blank |-> FALSE, i |-> 0, pos |-> Vec(0, 0),
     at |-> Scalar(0), unsafe |-> Scalar(0), in |-> Scalar(0)]

\* the uniform arrays the model binds: origins and sizes that differ from
\* slot to slot (d, e = 1) or not (d, e = 0)
UniformSets(n) ==
    { (ORG :> [k \in 1..n |-> Vec(a + d * (k - 1), b)])
        @@ (SIZ :> [k \in 1..n |-> Vec(sz + e * (k - 1), t)])
        @@ (TSZ :> [k \in 1..n |-> Vec(8, 8)]) :
        a \in 0..MaxCoord, sz \in 0..MaxCoord, d \in {0, 1}, e \in {0, 1},
        b \in {0, 1}, t \in {0, 1} }

\* a draw binds the uniforms of the pixel-mode program
Bind ==
    /\ gpu.pc = "idle"
    /\ \E u \in UniformSets(ShaderImageCount), bl \in BOOLEAN :
          gpu' = [IdleGpu EXCEPT !.pc = "bound", !.uniforms = u, !.blank = bl]
    /\ UNCHANGED <<ShaderImageCount, frames, cs, game>>

\* the fragment function fetches slot i at pos, checked and unchecked
Fetch ==
    /\ gpu.pc = "bound"
    /\ \E i \in 0..(ShaderImageCount - 1), x \in 0..(MaxCoord + 2), y \in 0..2 :
          LET text == shaderSuffix(Pixels, ShaderImageCount).text
              atFn == TheFunc(text, <<"imageSrc", Itoa(i), "At">>)
              unsafeFn == TheFunc(text, <<"imageSrc", Itoa(i), "UnsafeAt">>)
          IN  gpu' = [gpu EXCEPT !.pc = "fetched", !.i = i, !.pos = Vec(x, y),
                                 !.at = CallFunc(atFn, Vec(x, y), gpu.uniforms, gpu.blank),
                                 !.unsafe = CallFunc(unsafeFn, Vec(x, y), gpu.uniforms, gpu.blank),
                                 !.in = LocalOf(atFn, "in", Vec(x, y), gpu.uniforms, gpu.blank)]
    /\ UNCHANGED <<ShaderImageCount, frames, cs, game>>

\* the draw ends
Unbind ==
    /\ gpu.pc = "fetched"
    /\ gpu' = IdleGpu
    /\ UNCHANGED <<ShaderImageCount, frames, cs, game>>

-----------------------------------------------------------------------------
(* The isometric example: Game.Update.  A float64 is modelled in fixed     *)
(* point, as the integer number of ten-thousandths (One stands for 1.0);   *)
(* a quotient is rounded towards zero.  The scroll amount is kept in       *)
(* quarters.                                                               *)

One == 10000

\* math.MinInt32 (lines 53-54)
MinInt32 == (-2147483647) - 1

Quot(a, b) == IF a >= 0 THEN a \div b ELSE -((-a) \div b)

\* the levels NewLevel may return: (w, h, tileSize)
Levels == {[w |-> 9, h |-> 5, tileSize |-> 5], [w |-> 3, h |-> 2, tileSize |-> 3]}

\* the input of one tick.  zoomOut: C or PageDown; zoomIn: E or PageUp;
\* wheel: the y of ebiten.Wheel(), in quarters; left, right, down, up: the
\* arrow keys or A, D, S, W; mouseRight and cursor: the right button and
\* ebiten.CursorPosition(); keyR: R just pressed; newLevel: what NewLevel
\* returns then, "error" when it fails.
ZoomInputs ==
    {[zoomOut |-> o, zoomIn |-> i, wheel |-> 0] : o \in BOOLEAN, i \in BOOLEAN}
        \cup {[zoomOut |-> FALSE, zoomIn |-> FALSE, wheel |-> w] : w \in {-12, -2, 2, 12}}

PanInputs == {{}, {"left"}, {"right"}, {"down"}, {"up"}, {"left", "right", "down", "up"}}

MouseInputs ==
    {[mouseRight |-> FALSE, cursor |-> <<0, 0>>]}
        \cup {[mouseRight |-> TRUE, cursor |-> c] : c \in {<<0, 0>>, <<40, 10>>, <<10, 60>>}}

LevelInputs ==
    {[keyR |-> FALSE, newLevel |-> "error"]}
        \cup {[keyR |-> TRUE, newLevel |-> l] : l \in {"error", "big", "small"}}

LevelOf(name) ==
    IF name = "big" THEN [w |-> 9, h |-> 5, tileSize |-> 5] ELSE [w |-> 3, h |-> 2, tileSize |-> 3]

NoInput ==
    [zoom |-> [zoomOut |-> FALSE, zoomIn |-> FALSE, wheel |-> 0], pan |-> {},
     mouse |-> [mouseRight |-> FALSE, cursor |-> <<0, 0>>],
     level |-> [keyR |-> FALSE, newLevel |-> "error"]]

\* how many of the four input groups are not at rest
Active(in) ==
    (IF in.zoom # NoInput.zoom THEN 1 ELSE 0) + (IF in.pan # {} THEN 1 ELSE 0)
        + (IF in.mouse.mouseRight THEN 1 ELSE 0) + (IF in.level.keyR THEN 1 ELSE 0)

\* the inputs of a tick: at most two of the groups are active at once
Inputs ==
    {in \in [zoom : ZoomInputs, pan : PanInputs, mouse : MouseInputs, level : LevelInputs] :
        Active(in) <= 2}

\* lines 43-57: NewGame.  last records the level, the pan anchor and the
\* input the latest Update began with.
NewGame(l) ==
    [ticks |-> 0, held |-> 0, updated |-> FALSE, currentLevel |-> l,
     camX |-> 0, camY |-> 0, camScale |-> 2 * One, camScaleTo |-> 2 * One,
     mousePanX |-> MinInt32, mousePanY |-> MinInt32,
     last |-> [level |-> l, anchor |-> <<MinInt32, MinInt32>>, in |-> NoInput]]

\* lines 62-74: the scroll amount, in quarters
ScrollY(z) ==
    IF z.zoomOut THEN -1
    ELSE IF z.zoomIn THEN 1
         ELSE IF z.wheel < -4 THEN -4
              ELSE IF z.wheel > 4 THEN 4 ELSE z.wheel

\* lines 75-82: the target zoom, clamped to [0.01, 100]
ZoomTarget(g, z) ==
    LET to == g.camScaleTo + Quot(ScrollY(z) * Quot(g.camScaleTo, 7), 4)
    IN  [g EXCEPT !.camScaleTo = IF to < Quot(One, 100) THEN Quot(One, 100)
                                 ELSE IF to > 100 * One THEN 100 * One ELSE to]

\* lines 85-90
SmoothZoom(g) ==
    IF g.camScaleTo > g.camScale
    THEN [g EXCEPT !.camScale = g.camScale + Quot(g.camScaleTo - g.camScale, 10)]
    ELSE IF g.camScaleTo < g.camScale
         THEN [g EXCEPT !.camScale = g.camScale - Quot(g.camScale - g.camScaleTo, 10)]
         ELSE g

\* line 93: pan := 7.0 / g.camScale
PanOf(g) == Quot(7 * One * One, g.camScale)

\* lines 94-105
PanKeys(g, keys) ==
    LET pan == PanOf(g)
        x1 == IF "left" \in keys THEN g.camX - pan ELSE g.camX
        x2 == IF "right" \in keys THEN x1 + pan ELSE x1
        y1 == IF "down" \in keys THEN g.camY - pan ELSE g.camY
        y2 == IF "up" \in keys THEN y1 + pan ELSE y1
    IN  [g EXCEPT !.camX = x2, !.camY = y2]

\* lines 107-117
MousePan(g, m) ==
    IF m.mouseRight
    THEN IF g.mousePanX = MinInt32 /\ g.mousePanY = MinInt32
         THEN [g EXCEPT !.mousePanX = m.cursor[1], !.mousePanY = m.cursor[2]]
         ELSE LET dx == (g.mousePanX - m.cursor[1]) * Quot(PanOf(g), 100)
                  dy == (g.mousePanY - m.cursor[2]) * Quot(PanOf(g), 100)
              IN  [g EXCEPT !.camX = g.camX - dx, !.camY = g.camY + dy]
    ELSE IF g.mousePanX # MinInt32 \/ g.mousePanY # MinInt32
         THEN [g EXCEPT !.mousePanX = MinInt32, !.mousePanY = MinInt32]
         ELSE g

\* lines 120-121
WorldWidth(l) == ((l.w * l.tileSize) \div 2) * One

WorldHeight(l) == ((l.h * l.tileSize) \div 2) * One

\* lines 119-131 with the upper clamps left out
ClampCamLowerOnly(g) ==
    LET worldWidth == WorldWidth(g.currentLevel)
        worldHeight == WorldHeight(g.currentLevel)
    IN  [g EXCEPT !.camX = IF g.camX < worldWidth * (-1) THEN worldWidth * (-1) ELSE g.camX,
                  !.camY = IF g.camY < worldHeight * (-1) THEN worldHeight * (-1) ELSE g.camY]

\* lines 119-131
ClampCam(g) ==
    LET worldWidth == WorldWidth(g.currentLevel)
        worldHeight == WorldHeight(g.currentLevel)
    IN  [g EXCEPT !.camX = IF g.camX < worldWidth * (-1) THEN worldWidth * (-1)
                           ELSE IF g.camX > worldWidth THEN worldWidth ELSE g.camX,
                  !.camY = IF g.camY < worldHeight * (-1) THEN worldHeight * (-1)
                           ELSE IF g.camY > 0 THEN 0 ELSE g.camY]

\* lines 133-141
Randomize(g, l) ==
    IF l.keyR /\ l.newLevel # "error"
    THEN [g EXCEPT !.currentLevel = LevelOf(l.newLevel)]
    ELSE g

\* lines 60-144: Game.Update on input in
UpdateGame(g, in) ==
    LET begun == [g EXCEPT !.updated = TRUE,
                           !.last = [level |-> g.currentLevel,
                                     anchor |-> <<g.mousePanX, g.mousePanY>>, in |-> in]]
    IN  Randomize(ClampCam(MousePan(PanKeys(SmoothZoom(ZoomTarget(begun, in.zoom)), in.pan),
                                    in.mouse)), in.level)

WheelUp == [NoInput EXCEPT !.zoom = [zoomOut |-> FALSE, zoomIn |-> FALSE, wheel |-> 12]]

WheelDown == [NoInput EXCEPT !.zoom = [zoomOut |-> FALSE, zoomIn |-> FALSE, wheel |-> -12]]

InitGame ==
    /\ ShaderImageCount = 1
    /\ frames = [c \in Calls |-> IdleFrame]
    /\ cs = IdleCS
    /\ gpu = IdleGpu
    /\ \E l \in Levels : game = NewGame(l)

\* Update while the wheel is turned up, tick after tick from NewGame on,
\* until the target zoom is one tick from its upper clamp
HoldWheelUp ==
    /\ game.ticks = 0
    /\ game.held \in 0..(WheelUpTicks - 1)
    /\ game' = [UpdateGame(game, WheelUp) EXCEPT !.held = game.held + 1]
    /\ UNCHANGED <<ShaderImageCount, frames, cs, gpu>>

\* Update while the wheel is turned down, until the target zoom is one
\* tick from its lower clamp
HoldWheelDown ==
    /\ game.ticks = 0
    /\ -game.held \in 0..(WheelDownTicks - 1)
    /\ game' = [UpdateGame(game, WheelDown) EXCEPT !.held = game.held - 1]
    /\ UNCHANGED <<ShaderImageCount, frames, cs, gpu>>

\* Update on any input: right after NewGame or after the wheel was held
Update ==
    /\ game.ticks < MaxTicks
    /\ game.held \in {0, WheelUpTicks, -WheelDownTicks}
    /\ \E in \in Inputs : game' = [UpdateGame(game, in) EXCEPT !.ticks = game.ticks + 1]
    /\ UNCHANGED <<ShaderImageCount, frames, cs, gpu>>

NextGame == HoldWheelUp \/ HoldWheelDown \/ Update

SpecGame == InitGame /\ [][NextGame]_vars

-----------------------------------------------------------------------------
IdleGame == NewGame([w |-> 9, h |-> 5, tileSize |-> 5])

InitGraphics ==
    /\ ShaderImageCount \in 1..MaxImageCount
    /\ frames = [c \in Calls |-> IdleFrame]
    /\ cs = IdleCS
    /\ gpu = IdleGpu
    /\ game = IdleGame

NextSuffix ==
    \E c \in Calls : Call(c) \/ Header(c) \/ LoopBody(c) \/ Finish(c)

SpecSuffix == InitGraphics /\ [][NextSuffix]_vars

NextCompile == CS_Call \/ CS_Parse \/ CS_Suffix \/ CS_Compile \/ CS_Check

SpecCompile == InitGraphics /\ [][NextCompile]_vars

NextFetch == Bind \/ Fetch \/ Unbind

SpecFetch == InitGraphics /\ [][NextFetch]_vars

-----------------------------------------------------------------------------
(* Properties of shaderSuffix, checked under SpecSuffix *)

ValidUnit(u) == u \in {Pixels, Texels}

Returned(c) == frames[c].pc = "done"

ReturnedText(c) == Returned(c) /\ frames[c].ret.err = NoErr

FnName(i, kind) == <<"imageSrc", Itoa(i), kind>>

Pos == Leaf("var", "pos")
Elem(arr, i) == Node("idx", arr, Leaf("num", Itoa(i)), << >>)
Bin(op, a, b) == Node("bin", op, a, b)
Step(a, b) == Node("call", "step", a, b)

\* C1: for every slot count and every unit other than Pixels and Texels,
\* shaderSuffix returns an error and the empty text.
C1_BadUnitIsRejected ==
    \A c \in Calls :
        Returned(c) /\ ~ValidUnit(frames[c].unit)
            => frames[c].ret.err # NoErr /\ frames[c].ret.text = NoText

\* the reference remap of C5
RemapRef(i, unit) ==
    IF i = 0 THEN Pos
    ELSE IF unit = Pixels
         THEN Bin("+", Bin("-", Pos, Elem(ORG, 0)), Elem(ORG, i))
         ELSE Bin("+", Bin("/", Bin("*", Bin("-", Pos, Elem(ORG, 0)), Elem(TSZ, 0)), Elem(TSZ, i)),
                  Elem(ORG, i))

\* C5: in both unit modes and for every slot i, the position that
\* imageSrc<i>UnsafeAt and imageSrc<i>At fetch at is the reference remap:
\* pos for slot 0, a pure translation in the pixel mode, the translation
\* rescaled by texSize[0] / texSize[i] in the texel mode.
C5_PositionIsRemap ==
    \A c \in Calls :
        ReturnedText(c) /\ ValidUnit(frames[c].unit) =>
            \A i \in 0..(ShaderImageCount - 1) :
                \A kind \in {"UnsafeAt", "At"} :
                    LET fn == TheFunc(frames[c].ret.text, FnName(i, kind))
                    IN  Left(FetchOf(ReturnExpr(fn))) = RemapRef(i, frames[c].unit)

C5_Witness ==
    /\ ShaderImageCount >= 2
    /\ ReturnedText(1) /\ frames[1].unit = Texels
    /\ ReturnedText(2) /\ frames[2].unit = Pixels

\* C6: in the texel mode the bounds test of every imageSrc<i>At compares
\* pos against origin[0] and origin[0] + size[0], whatever the slot.
C6_TexelBoundsUseSlot0 ==
    \A c \in Calls :
        ReturnedText(c) /\ frames[c].unit = Texels =>
            \A i \in 0..(ShaderImageCount - 1) :
                LET fn == TheFunc(frames[c].ret.text, FnName(i, "At"))
                IN  /\ HasDefine(fn, "in")
                    /\ DefineExpr(fn, "in") =
                          Bin("-", Step(Elem(ORG, 0), Pos),
                                   Step(Bin("+", Elem(ORG, 0), Elem(SIZ, 0)), Pos))

C6_Witness ==
    \E c \in Calls :
        /\ ShaderImageCount >= 2
        /\ ReturnedText(c) /\ frames[c].unit = Texels
        /\ FuncsNamed(frames[c].ret.text, FnName(ShaderImageCount - 1, "At")) # {}

\* the indices a declaration uses: every digit that follows a "["
IndexTokens(decl) ==
    {Atoi(decl[k + 1]) : k \in {j \in 1..(Len(decl) - 1) : decl[j] = "[" /\ IsDigit(decl[j + 1])}}

\* the declarations of a text that declare the variable called name
VarsNamed(text, name) == {k \in 1..Len(text) : IsVar(text[k]) /\ text[k][2] = name}

SlotKinds == {"Origin", "Size", "UnsafeAt", "At"}

\* C8: for both unit modes the preamble declares, for each slot i < N and
\* for no other index, exactly one imageSrc<i>Origin, imageSrc<i>Size,
\* imageSrc<i>UnsafeAt and imageSrc<i>At; the accessors read element i, the
\* fetches sample __t<i>, the uniform arrays have exactly N elements and no
\* function indexes outside them.
C8_SlotFunctions ==
    \A c \in Calls :
        ReturnedText(c) /\ ValidUnit(frames[c].unit) =>
            LET text == frames[c].ret.text
                n == ShaderImageCount
            IN  /\ \A i \in 0..(n - 1) : \A kind \in SlotKinds :
                        Cardinality(FuncsNamed(text, FnName(i, kind))) = 1
                /\ \A k \in 1..Len(text) :
                        IsFunc(text[k]) /\ text[k][2] = "imageSrc" /\ IsDigit(text[k][3])
                            => Atoi(text[k][3]) < n /\ text[k][4] \in SlotKinds
                /\ \A i \in 0..(n - 1) :
                        /\ ReturnExpr(TheFunc(text, FnName(i, "Origin"))) = Elem(ORG, i)
                        /\ ReturnExpr(TheFunc(text, FnName(i, "Size"))) = Elem(SIZ, i)
                        /\ Name(FetchOf(ReturnExpr(TheFunc(text, FnName(i, "UnsafeAt"))))) = Itoa(i)
                        /\ Name(FetchOf(ReturnExpr(TheFunc(text, FnName(i, "At"))))) = Itoa(i)
                /\ \A arr \in {ORG, SIZ, TSZ} :
                        /\ Cardinality(VarsNamed(text, arr)) = 1
                        /\ \A k \in VarsNamed(text, arr) : text[k] = <<"var", arr, "[", Itoa(n), "]", "vec2">>
                /\ \A k \in 1..Len(text) :
                        IsFunc(text[k]) => \A x \in IndexTokens(text[k]) : x < n

C8_Witness ==
    \E c \in Calls :
        /\ ShaderImageCount >= 3
        /\ ReturnedText(c) /\ frames[c].unit = Pixels
        /\ FuncsNamed(frames[c].ret.text, FnName(2, "At")) # {}
        /\ FuncsNamed(frames[c].ret.text, FnName(2, "UnsafeAt")) # {}

\* C9: two calls with the same unit (and the one slot count) return the
\* same text and the same error however their steps interleave, and each
\* returns what the call returns when it runs alone.
C9_SameInputSameOutput ==
    /\ \A c, d \in Calls :
          Returned(c) /\ Returned(d) /\ frames[c].unit = frames[d].unit
              => frames[c].ret = frames[d].ret
    /\ \A c \in Calls :
          Returned(c) => frames[c].ret = shaderSuffix(frames[c].unit, ShaderImageCount)

C9_Witness ==
    /\ Returned(1) /\ Returned(2)
    /\ frames[1].unit = frames[2].unit
    /\ frames[1].ret.text # NoText

-----------------------------------------------------------------------------
(* Properties of CompileShader, checked under SpecCompile *)

Order == <<CallParse, CallSuffix, CallCompile, CheckEntries>>

IsPrefix(a, b) == Len(a) <= Len(b) /\ SubSeq(b, 1, Len(a)) = a

Logged(x) == \E k \in 1..Len(cs.log) : cs.log[k] = x

\* C2: the steps run in the order parse, synthesize, compile, validate;
\* a step runs only if every earlier one succeeded; the first failing
\* step's error is returned unchanged.
C2_StepsInOrder ==
    /\ IsPrefix(cs.log, Order)
    /\ Logged(CallSuffix) => cs.parse.err = NoErr
    /\ Logged(CallCompile) => cs.suffix.err = NoErr
    /\ Logged(CheckEntries) => cs.comp.err = NoErr
    /\ cs.pc = "done" /\ cs.parse.err # NoErr
          => cs.log = <<CallParse>> /\ cs.ret.err = cs.parse.err
    /\ cs.pc = "done" /\ cs.suffix.err # NoErr
          => cs.log = <<CallParse, CallSuffix>> /\ cs.ret.err = cs.suffix.err
    /\ cs.pc = "done" /\ cs.comp.err # NoErr
          => cs.log = <<CallParse, CallSuffix, CallCompile>> /\ cs.ret.err = cs.comp.err

C2_Witness ==
    /\ cs.pc = "done"
    /\ cs.parse.err # NoErr
    /\ cs.log = <<CallParse>>

Validated == cs.pc = "done" /\ Logged(CheckEntries)

\* C3 as claimed: an absent fragment block always yields the
\* missing-fragment error and an absent vertex block always yields the
\* missing-vertex error, for every combination of blocks.
C3_EachAbsentBlockReported ==
    Validated =>
        /\ cs.comp.ir.FragmentBlock = NilBlock
              => cs.ret.prog = NilProgram /\ cs.ret.err = MissingFragment
        /\ cs.comp.ir.VertexBlock = NilBlock
              => cs.ret.prog = NilProgram /\ cs.ret.err = MissingVertex

\* C3 as amended: an absent vertex block yields the missing-vertex error;
\* an absent fragment block yields the missing-fragment error when the
\* vertex block is present; no program is returned in either case.
C3_FirstAbsentBlockReported ==
    Validated =>
        /\ cs.comp.ir.VertexBlock = NilBlock
              => cs.ret.prog = NilProgram /\ cs.ret.err = MissingVertex
        /\ cs.comp.ir.VertexBlock # NilBlock /\ cs.comp.ir.FragmentBlock = NilBlock
              => cs.ret.prog = NilProgram /\ cs.ret.err = MissingFragment

C3_Witness ==
    /\ Validated
    /\ cs.comp.ir.VertexBlock = NilBlock
    /\ cs.comp.ir.FragmentBlock = NilBlock
    /\ cs.ret.err = MissingVertex

\* C4: a call ends either with a program whose two blocks are present and
\* no error, or with no program and an error.
C4_ProgramOrError ==
    cs.pc = "done" =>
        \/ /\ cs.ret.prog # NilProgram
           /\ cs.ret.prog.VertexBlock # NilBlock
           /\ cs.ret.prog.FragmentBlock # NilBlock
           /\ cs.ret.err = NoErr
        \/ /\ cs.ret.prog = NilProgram
           /\ cs.ret.err # NoErr

C4_Witness ==
    /\ cs.pc = "done"
    /\ cs.ret.err = NoErr
    /\ cs.ret.prog = Program(SomeBlock, SomeBlock)
    /\ cs.log = Order

-----------------------------------------------------------------------------
(* Properties of the emitted pixel-mode functions, checked under SpecFetch *)

Fetched == gpu.pc = "fetched"

\* the position remapped into slot i's space, and whether it lies inside
\* slot i's region on both axes
Remapped ==
    Vec(gpu.pos[1] - gpu.uniforms[ORG][1][1] + gpu.uniforms[ORG][gpu.i + 1][1],
        gpu.pos[2] - gpu.uniforms[ORG][1][2] + gpu.uniforms[ORG][gpu.i + 1][2])

InsideRegion ==
    \A ax \in {1, 2} :
        /\ gpu.uniforms[ORG][gpu.i + 1][ax] <= Remapped[ax]
        /\ Remapped[ax] < gpu.uniforms[ORG][gpu.i + 1][ax] + gpu.uniforms[SIZ][gpu.i + 1][ax]

-----------------------------------------------------------------------------
(* Properties of Game.Update, checked under SpecGame *)

\* C10: after every Update the target zoom lies in [0.01, 100], the camera
\* lies in [-W, W] x [-H, 0] for the level the Update began with, and the
\* pan anchor is (MinInt32, MinInt32) when the right button was not pressed.
C10_UpdateClamps ==
    game.updated =>
        /\ Quot(One, 100) <= game.camScaleTo /\ game.camScaleTo <= 100 * One
        /\ -WorldWidth(game.last.level) <= game.camX /\ game.camX <= WorldWidth(game.last.level)
        /\ -WorldHeight(game.last.level) <= game.camY /\ game.camY <= 0
        /\ ~game.last.in.mouse.mouseRight
              => game.mousePanX = MinInt32 /\ game.mousePanY = MinInt32

C10_Witness ==
    /\ game.updated
    /\ game.ticks >= 2
    /\ game.last.anchor # <<MinInt32, MinInt32>>
    /\ ~game.last.in.mouse.mouseRight
    /\ game.last.level # game.currentLevel
    /\ game.camX = WorldWidth(game.last.level)
    /\ game.camX > WorldWidth(game.currentLevel)
    /\ game.camScaleTo = Quot(One, 100)

====
